---- MODULE Spec2Model ----
(***************************************************************************)
(* PaperPilot server, the POST /analyze handlers (src/src/index.ts).       *)
(*                                                                         *)
(* One request is followed from its arrival to its response and to the     *)
(* settling of every completion call it dispatched.  A handler is an async *)
(* function: it runs without interruption between two awaits, so there is  *)
(* one action per segment.  For review-paper: the arrival of the request,  *)
(* the settling of the benchmark call, the settling of a reviewer call.    *)
(* For term, citations-batch, format, format-reference and cite: the       *)
(* arrival of the request and the settling of the one completion call.     *)
(* ExtractSpec applies parseJSONResponse on its own to bounded texts.      *)
(* LimiterSpec counts requests per client over the mounted paths,         *)
(* PairSpec runs two review requests side by side, ProfileSpec applies     *)
(* getProfileContext and PromptSpec builds the reviewer prompts, each on   *)
(* its own; FairSpec is Spec with completion calls that settle.            *)
(*                                                                         *)
(* Numbers.  A reviewer score s is held as the integer 10*s (tenths), so   *)
(* that toFixed(1) is exact: 7.9 is 79.  A JavaScript number is a record   *)
(* [nan, val]; NaN is [nan |-> TRUE, val |-> 0].                           *)
(*                                                                         *)
(* Text.  A completion text is a sequence of tokens: the triple-backtick   *)
(* marker, the word json, white space, prose that is not JSON, and the     *)
(* text of one complete JSON value; the text of a JSON value with a triple *)
(* backtick inside a string is split at that marker.                       *)
(***************************************************************************)
EXTENDS Integers, Sequences, FiniteSets, TLC

\* ------------------------------------------------------------------ bounds
\* Largest whole score a reviewer completion carries (one above the scale).
MaxScore == 11
\* Number of segments (fenced blocks, bare payloads, fillers) of a raw text
\* handed to the extractor.
MaxSegments == 2

\* Length of the longest weaknesses list of a reviewer completion.
MaxWeak == 4

\* ------------------------------------------------------------- JS values
JUndefined == [kind |-> "undefined"]
JNull == [kind |-> "null"]
JObj(o) == [kind |-> "object", o |-> o]
JArr(items) == [kind |-> "array", items |-> items]

NaN == [nan |-> TRUE, val |-> 0]
Num(n) == [nan |-> FALSE, val |-> n]

\* ------------------------------------------------------------------ text
Fence == [t |-> "fence"]
Tag == [t |-> "tag"]
Ws == [t |-> "ws"]
Prose == [t |-> "prose"]
Json(v) == [t |-> "json", v |-> v]
\* The JSON text of a value one of whose strings holds a triple backtick is
\* three tokens: the text before the backticks, the backticks, the rest.
JsonHead(v) == [t |-> "jsonHead", v |-> v]
JsonTail == [t |-> "jsonTail"]

\* String.prototype.trim on a token sequence.
RECURSIVE TrimLeft(_)
TrimLeft(s) ==
  IF s # <<>> /\ Head(s) = Ws THEN TrimLeft(Tail(s)) ELSE s

RECURSIVE TrimRight(_)
TrimRight(s) ==
  IF s # <<>> /\ s[Len(s)] = Ws THEN TrimRight(SubSeq(s, 1, Len(s) - 1)) ELSE s

Trim(s) == TrimRight(TrimLeft(s))

\* Positions of the fences after position i.
FencesAfter(text, i) == {k \in (i + 1)..Len(text) : text[k] = Fence}

Min(S) == CHOOSE x \in S : \A y \in S : x <= y

\* Capture group of `\s*([\s\S]*?)\s*```' started at position from: the
\* lazy group stops at the first place from which only white space separates
\* it from a fence, i.e. the text up to the first fence, white space trimmed.
Capture(text, from) ==
  Trim(SubSeq(text, from, Min(FencesAfter(text, from - 1)) - 1))

\* Starts of a match of /```json\s*([\s\S]*?)\s*```/.
TaggedStarts(text) ==
  {i \in 1..Len(text) : /\ text[i] = Fence
                        /\ i + 1 <= Len(text)
                        /\ text[i + 1] = Tag
                        /\ FencesAfter(text, i + 1) # {}}

\* Starts of a match of /```\s*([\s\S]*?)\s*```/.
UntaggedStarts(text) ==
  {i \in 1..Len(text) : text[i] = Fence /\ FencesAfter(text, i) # {}}

\* text.match(tagged) || text.match(untagged); cleanText = match ? match[1] : text
CleanText(text) ==
  IF TaggedStarts(text) # {}
    THEN Capture(text, Min(TaggedStarts(text)) + 2)
    ELSE IF UntaggedStarts(text) # {}
           THEN Capture(text, Min(UntaggedStarts(text)) + 1)
           ELSE text

\* JSON.parse accepts exactly one JSON value surrounded by white space.
JSONParses(s) ==
  \/ Len(Trim(s)) = 1 /\ Trim(s)[1].t = "json"
  \/ /\ Len(Trim(s)) = 3
     /\ Trim(s)[1].t = "jsonHead"
     /\ Trim(s)[2] = Fence
     /\ Trim(s)[3] = JsonTail

\* Extraction that answers null where it should answer the fallback.
parseJSONResponseNullOnFailure(text, fallback) ==
  IF JSONParses(CleanText(text)) THEN Trim(CleanText(text))[1].v ELSE JNull

parseJSONResponse(text, fallback) ==
  IF JSONParses(CleanText(text)) THEN Trim(CleanText(text))[1].v ELSE fallback

\* --------------------------------------------------------- request body
SectionNames == {"abstract", "introduction", "method", "results", "discussion"}
RequiredSections == {"abstract", "introduction", "method", "results"}

\* What a section of the body holds: nothing, "", a non-empty string, or a
\* truthy value that is not a string (a number, an object).
SecKinds == {"absent", "empty", "text", "nonString"}
Truthy(k) == k \in {"text", "nonString"}

\* What acceptedSamples / rejectedSamples holds: nothing, [], a truthy value
\* that is no array, an array of strings or {abstract} objects, an array
\* holding null.
SampleKinds == {"absent", "emptyArray", "notArray", "texts", "nullElement"}

BaseSec == [n \in SectionNames |-> "text"]
NoSec == [n \in SectionNames |-> "absent"]

SecVariants ==
  {BaseSec} \cup {[BaseSec EXCEPT ![n] = k] : n \in SectionNames, k \in SecKinds}

SamplePairs ==
  {<<"emptyArray", "emptyArray">>, <<"notArray", "absent">>,
   <<"texts", "absent">>, <<"absent", "texts">>,
   <<"nullElement", "absent">>, <<"texts", "nullElement">>}

\* profileId is absent unless said otherwise: falsy, a string, or a truthy
\* value without includes().
MkBody(sk, sec, acc, rej) ==
  [sectionsKind |-> sk, sec |-> sec, accepted |-> acc, rejected |-> rej, profileId |-> "absent"]

Bodies ==
  {MkBody(sk, NoSec, a, "absent") : sk \in {"absent", "nonObject"}, a \in {"absent", "texts"}}
  \cup {MkBody("object", s, "absent", "absent") : s \in SecVariants}
  \cup {MkBody("object", BaseSec, p[1], p[2]) : p \in SamplePairs}
  \cup {MkBody("object", [BaseSec EXCEPT !["method"] = "absent"], "texts", "texts")}
  \cup {[MkBody("object", BaseSec, "absent", "absent") EXCEPT !.profileId = k] :
          k \in {"text", "nonString"}}
  \cup {[MkBody("object", NoSec, "absent", "absent") EXCEPT !.profileId = "nonString"]}

\* ----------------------------------------------------------- completions
Roles == {"Theorist", "Experimentalist", "Impact_Assessor"}
RoleOrder == <<"Theorist", "Experimentalist", "Impact_Assessor">>
RoleIndex(r) == CHOOSE i \in 1..3 : RoleOrder[i] = r
CallNames == Roles \cup {"benchmark", "completion"}

\* Errors a completion call rejects with, as the catch blocks read them:
\* error.code, whether error.message includes 'timeout', error.status.
ErrTimeout == [name |-> "Timeout", code |-> "ECONNABORTED", timeoutMsg |-> FALSE, status |-> 0]
ErrRateLimited == [name |-> "RateLimited", code |-> "", timeoutMsg |-> FALSE, status |-> 429]
ErrOther == [name |-> "Other", code |-> "", timeoutMsg |-> FALSE, status |-> 500]
\* Thrown by the handler's own code (property of undefined/null, not a function).
TypeError == [name |-> "TypeError", code |-> "", timeoutMsg |-> FALSE, status |-> 0]
UpstreamErrors == {ErrTimeout, ErrRateLimited, ErrOther}

WeaknessList(n) == [i \in 1..n |-> <<"weakness", i>>]
FullVerdict(s) ==
  [score |-> s, strengths |-> <<"strength">>, weaknesses |-> WeaknessList(MaxWeak),
   comment |-> "comment"]
NoWeaknesses == [score |-> 80, strengths |-> <<"strength">>, comment |-> "comment"]
NoScore == [strengths |-> <<"strength">>, weaknesses |-> WeaknessList(MaxWeak), comment |-> "comment"]
NoStrengths == [score |-> 60, weaknesses |-> <<>>, comment |-> "comment"]
\* A well-formed verdict with one weakness fewer, its weaknesses told apart
\* from those of the other verdicts.
ShorterVerdict ==
  [score |-> 70, strengths |-> <<"strength">>,
   weaknesses |-> [i \in 1..(MaxWeak - 1) |-> <<"flaw", i>>], comment |-> "other comment"]

\* Scores carried by well-formed completions, in tenths.
ScoreVals == {0, 40, 79, 80, 10 * MaxScore}
FullVerdicts == {FullVerdict(s) : s \in ScoreVals} \cup {ShorterVerdict}
MisShaped == {NoWeaknesses, NoScore, NoStrengths}

BareTexts == {<<Json(JObj(v))>> : v \in FullVerdicts \cup MisShaped}
FencedTexts == {<<Prose, Ws, Fence, Tag, Ws, Json(JObj(FullVerdict(40))), Ws, Fence>>}
GarbageTexts == {<<Prose>>, <<Fence, Tag, Ws, Prose>>}
\* <<>> is content that is null, undefined or ""; JSON that is no object is
\* null or an array.
ReviewerTexts ==
  {<<>>, <<Json(JNull)>>, <<Json(JArr(<<>>))>>} \cup BareTexts \cup FencedTexts \cup GarbageTexts

Pending == [st |-> "pending"]
NotIssued == [st |-> "none"]
Ok(text) == [st |-> "ok", content |-> text]
Failed(e) == [st |-> "failed", err |-> e]

ReviewerOutcomes == {Ok(t) : t \in ReviewerTexts} \cup {Failed(e) : e \in UpstreamErrors}

Benchmark == [yourNoveltyScore |-> 70, keyGaps |-> <<"gap">>]
BenchmarkOutcomes ==
  {Failed(ErrOther), Failed(ErrTimeout), Ok(<<>>), Ok(<<Prose>>), Ok(<<Json(JArr(<<>>))>>),
   Ok(<<Fence, Tag, Ws, Json(JObj(Benchmark)), Ws, Fence>>)}

\* ------------------------------------------------- handler, pure parts
\* Validation that forgets the last required section.
ValidateWithoutResults(b) ==
  IF b.sectionsKind # "object"
    THEN "sections object is required"
    ELSE IF \E n \in RequiredSections \ {"results"} : ~Truthy(b.sec[n])
           THEN "Required sections: abstract, introduction, method, results"
           ELSE "ok"

\* The two validation returns; "ok" when the body passes both.
Validate(b) ==
  IF b.sectionsKind # "object"
    THEN "sections object is required"
    ELSE IF \E n \in RequiredSections : ~Truthy(b.sec[n])
           THEN "Required sections: abstract, introduction, method, results"
           ELSE "ok"

\* samples && Array.isArray(samples) && samples.length > 0
NonEmptyArray(k) == k \in {"texts", "nullElement"}

\* comparisonContext is non-empty
HasComparison(b) == NonEmptyArray(b.accepted) \/ NonEmptyArray(b.rejected)

\* s.abstract on a null element throws, outside the try block.
ComparisonThrows(b) == b.accepted = "nullElement" \/ b.rejected = "nullElement"

\* What stands between validation and the try block throws:
\* getProfileContext(profileId) on a truthy profileId without includes(),
\* or the sample excerpts on a null sample.
\* What becomes of a request whose async handler rejects.  The handlers are
\* registered as they are, without a wrapper that catches: a router that
\* ignores the returned promise leaves the request unanswered, one that
\* forwards the rejection to its default error handler answers 500.
RejectedHandlerResponses == {<<>>, <<[status |-> 500, error |-> "unhandled rejection"]>>}

ThrowsOutsideTry(b) == b.profileId = "nonString" \/ ComparisonThrows(b)

\* Building a reviewer's prompt calls substring on the sections it excerpts.
PromptThrows(r, b) ==
  CASE r = "Theorist" ->
         b.sec["introduction"] = "nonString" \/ b.sec["method"] = "nonString"
    [] r = "Experimentalist" ->
         b.sec["method"] = "nonString" \/ b.sec["results"] = "nonString"
    [] r = "Impact_Assessor" ->
         b.sec["introduction"] = "nonString" \/ b.sec["discussion"] = "nonString"

\* Index of the first reviewer whose prompt throws, 4 when none does: the
\* array literal is evaluated in order, the calls before it are dispatched.
FirstThrow(b) ==
  IF \E i \in 1..3 : PromptThrows(RoleOrder[i], b)
    THEN Min({i \in 1..3 : PromptThrows(RoleOrder[i], b)})
    ELSE 4

\* The catch block of the handler.
CatchResponse(e) ==
  IF e.code = "ECONNABORTED" \/ e.timeoutMsg
    THEN [status |-> 504, error |-> "Request timeout. Paper review takes 1-2 minutes."]
    ELSE [status |-> 500, error |-> "Failed to review paper"]

DefaultVerdict == JObj([score |-> 50, strengths |-> <<>>, weaknesses |-> <<>>, comment |-> ""])

\* content || "{}"
ContentOrEmpty(text) == IF text = <<>> THEN <<Json(JObj(<<>>))>> ELSE text

ReviewerParsed(text) == parseJSONResponse(ContentOrEmpty(text), DefaultVerdict)
BenchmarkParsed(text) == parseJSONResponse(ContentOrEmpty(text), JNull)

Has(v, f) == v.kind = "object" /\ f \in DOMAIN v.o

\* reviewer.score as a number; undefined takes part in + as NaN.
ScoreOf(v) == IF Has(v, "score") THEN Num(v.o.score) ELSE NaN
Add(a, b) == IF a.nan \/ b.nan THEN NaN ELSE Num(a.val + b.val)

\* Nearest integer to n/3 (never a tie), the sign handled as toFixed does.
RoundThird(n) == IF n >= 0 THEN (2 * n + 3) \div 6 ELSE 0 - ((3 - 2 * n) \div 6)

\* parseFloat(((a + b + c) / 3).toFixed(1)), in tenths
OverallScore(a, b, c) ==
  IF Add(Add(a, b), c).nan THEN NaN ELSE Num(RoundThird(Add(Add(a, b), c).val))

Clamp(x, lo, hi) == IF x < lo THEN lo ELSE IF x > hi THEN hi ELSE x

\* The probability cut to an integer where it should be rounded.
AcceptProbabilityTruncated(o) ==
  IF o.nan THEN NaN ELSE Num(Clamp((o.val - 30) * 1667, 0, 100000) \div 1000)

\* Math.round(Math.min(100, Math.max(0, (overall - 3) * 16.67))), computed
\* in thousandths: (o/10 - 3) * 16.67 = (o - 30) * 1667 / 1000.
AcceptProbability(o) ==
  IF o.nan THEN NaN ELSE Num((Clamp((o.val - 30) * 1667, 0, 100000) + 500) \div 1000)

\* overall >= n; false for NaN
Ge(o, n) == ~o.nan /\ o.val >= n

\* Thresholds tested with > where the table has >=.
RecommendationStrict(o) ==
  IF ~o.nan /\ o.val > 80 THEN "strong_accept"
  ELSE IF ~o.nan /\ o.val > 70 THEN "weak_accept"
  ELSE IF ~o.nan /\ o.val > 60 THEN "borderline_accept"
  ELSE IF ~o.nan /\ o.val > 50 THEN "borderline_reject"
  ELSE IF ~o.nan /\ o.val > 40 THEN "weak_reject"
  ELSE "reject"

Recommendation(o) ==
  IF Ge(o, 80) THEN "strong_accept"
  ELSE IF Ge(o, 70) THEN "weak_accept"
  ELSE IF Ge(o, 60) THEN "borderline_accept"
  ELSE IF Ge(o, 50) THEN "borderline_reject"
  ELSE IF Ge(o, 40) THEN "weak_reject"
  ELSE "reject"

Focus(r) ==
  CASE r = "Theorist" -> "novelty_and_formalism"
    [] r = "Experimentalist" -> "empirical_rigor"
    [] r = "Impact_Assessor" -> "significance_and_impact"

\* The fields of a reviewerScores entry that are defined; a field that is
\* undefined is left out, as JSON serialisation leaves it out.
EntryFields(o) ==
  {"persona", "focus"} \cup (DOMAIN o \cap {"score", "strengths", "weaknesses"})
    \cup (IF "comment" \in DOMAIN o THEN {"detailedComment"} ELSE {})

\* The properties of a parsed value that is not null: those of an object,
\* none of the four for an array.
Properties(v) == IF v.kind = "object" THEN v.o ELSE <<>>

ReviewerEntry(r, v) ==
  [f \in EntryFields(Properties(v)) |->
     CASE f = "persona" -> r
       [] f = "focus" -> Focus(r)
       [] f = "detailedComment" -> Properties(v)["comment"]
       [] OTHER -> Properties(v)[f]]

\* Ids counted from 1 where the code counts from 0.
IssuesOneBased(prefix, severity, category, ws) ==
  [i \in 1..Len(ws) |->
     [id |-> <<prefix, i>>, severity |-> severity, category |-> category, issue |-> ws[i]]]

Issues(prefix, severity, category, ws) ==
  [i \in 1..Len(ws) |->
     [id |-> <<prefix, i - 1>>, severity |-> severity, category |-> category, issue |-> ws[i]]]

\* The merged list without its slice(0, 5).
CriticalIssuesUncapped(va, vb) ==
  Issues("issue_a", "medium", "novelty", va.o.weaknesses)
    \o Issues("issue_b", "high", "experiment", vb.o.weaknesses)

CriticalIssues(va, vb) ==
  SubSeq(Issues("issue_a", "medium", "novelty", va.o.weaknesses)
           \o Issues("issue_b", "high", "experiment", vb.o.weaknesses),
         1,
         Clamp(Len(va.o.weaknesses) + Len(vb.o.weaknesses), 0, 5))

\* comparativeBenchmark || undefined: an object or an array is truthy.
BenchmarkField(cb) == IF cb.kind \in {"object", "array"} THEN cb ELSE JUndefined

\* Reading .score of null, or .map of a weaknesses that is undefined (of
\* reviewerC only properties are read, nothing is called on them).
AggregateThrows(va, vb, vc) ==
  \/ va.kind = "null" \/ vb.kind = "null" \/ vc.kind = "null"
  \/ ~Has(va, "weaknesses")
  \/ ~Has(vb, "weaknesses")

Outcome(va, vb, vc, cb) ==
  [overallScore |-> OverallScore(ScoreOf(va), ScoreOf(vb), ScoreOf(vc)),
   acceptProbability |-> AcceptProbability(OverallScore(ScoreOf(va), ScoreOf(vb), ScoreOf(vc))),
   recommendation |-> Recommendation(OverallScore(ScoreOf(va), ScoreOf(vb), ScoreOf(vc))),
   reviewerScores |-> <<ReviewerEntry("Theorist", va), ReviewerEntry("Experimentalist", vb),
                        ReviewerEntry("Impact_Assessor", vc)>>,
   criticalIssues |-> CriticalIssues(va, vb),
   comparativeBenchmark |-> BenchmarkField(cb)]

\* The first two results of the join taken in the wrong order.
ReviewResponseSwapped(ta, tb, tc, cb) ==
  IF AggregateThrows(ReviewerParsed(ta), ReviewerParsed(tb), ReviewerParsed(tc))
    THEN CatchResponse(TypeError)
    ELSE [status |-> 200,
          outcome |-> Outcome(ReviewerParsed(tb), ReviewerParsed(ta), ReviewerParsed(tc), cb)]

\* Everything after the join: parse, score, compose, res.json or catch.
ReviewResponse(ta, tb, tc, cb) ==
  IF AggregateThrows(ReviewerParsed(ta), ReviewerParsed(tb), ReviewerParsed(tc))
    THEN CatchResponse(TypeError)
    ELSE [status |-> 200,
          outcome |-> Outcome(ReviewerParsed(ta), ReviewerParsed(tb), ReviewerParsed(tc), cb)]

\* ------------------------------------------------------------- state
\* ------------------------------------------- the single-call endpoints
\* term, citations-batch, format, format-reference and cite issue one
\* completion call each.
SingleCallRoutes == {"term", "citations-batch", "format", "format-reference", "cite"}

\* Most candidates a batch may hold.
MaxCandidates == 100

\* req.body.profileId: falsy, a string, or a truthy value without includes().
ProfileKinds == {"absent", "text", "nonString"}

\* req.body.candidates: no array, or an array of so many entries, all
\* objects or one of them null.
CandidateLens == {0, 1, MaxCandidates, MaxCandidates + 1}
CandidateValues ==
  {[isArray |-> FALSE, len |-> 0, hasNull |-> FALSE]}
  \cup {[isArray |-> TRUE, len |-> n, hasNull |-> FALSE] : n \in CandidateLens}
  \cup {[isArray |-> TRUE, len |-> n, hasNull |-> TRUE] : n \in CandidateLens \ {0}}

SingleCallRequests ==
  {[route |-> "term", profileId |-> k] : k \in ProfileKinds}
  \cup {[route |-> "citations-batch", candidates |-> c, profileId |-> k] :
          c \in CandidateValues, k \in ProfileKinds}
  \cup {[route |-> "format"], [route |-> "cite"]}
  \cup {[route |-> "format-reference", input |-> k] : k \in SecKinds}

\* A batch limit that turns away a batch of exactly the maximum.
ValidateBatchBelowMax(rq) ==
  IF ~rq.candidates.isArray \/ rq.candidates.len = 0
    THEN "candidates array is required"
    ELSE IF rq.candidates.len >= MaxCandidates
           THEN "Maximum 100 candidates per batch"
           ELSE "ok"

ValidateBatch(rq) ==
  IF ~rq.candidates.isArray \/ rq.candidates.len = 0
    THEN "candidates array is required"
    ELSE IF rq.candidates.len > MaxCandidates
           THEN "Maximum 100 candidates per batch"
           ELSE "ok"

\* !input || typeof input !== 'string'
ValidateFormatReference(rq) ==
  IF ~Truthy(rq.input) \/ rq.input # "text" THEN "input (DOI or title) is required" ELSE "ok"

ValidateSingleCall(rq) ==
  CASE rq.route = "citations-batch" -> ValidateBatch(rq)
    [] rq.route = "format-reference" -> ValidateFormatReference(rq)
    [] OTHER -> "ok"

\* getProfileContext(profileId), called outside the try block, throws on a
\* truthy profileId that has no includes().
ProfileContextThrows(rq) ==
  rq.route \in {"term", "citations-batch"} /\ rq.profileId = "nonString"

\* candidates.map(c => c.id ...) inside the try block throws on null.
CandidateListThrows(rq) == rq.route = "citations-batch" /\ rq.candidates.hasNull

FailureMessage(route) ==
  CASE route = "term" -> "Failed to analyze term"
    [] route = "citations-batch" -> "Failed to analyze citations batch"
    [] route = "format" -> "Failed to parse format"
    [] route = "format-reference" -> "Failed to format reference"
    [] route = "cite" -> "Failed to classify sentence"

\* The catch block of each handler.
RouteCatch(route, e) ==
  IF route \in {"term", "citations-batch"}
    THEN IF e.code = "ECONNABORTED" \/ e.timeoutMsg
           THEN [status |-> 504, error |-> "Request timeout. Please try again."]
           ELSE IF e.status = 429
                  THEN [status |-> 429, error |-> "Rate limit exceeded. Please wait a moment."]
                  ELSE [status |-> 500, error |-> FailureMessage(route)]
    ELSE [status |-> 500, error |-> FailureMessage(route)]


\* The fallback each handler hands to parseJSONResponse.
RouteFallback(route) ==
  IF route = "citations-batch" THEN JArr(<<>>) ELSE JObj([fallbackOf |-> route])

\* content || "{}", content || "[]"
RouteContentOrEmpty(route, text) ==
  IF text # <<>> THEN text
  ELSE IF route = "citations-batch" THEN <<Json(JArr(<<>>))>> ELSE <<Json(JObj(<<>>))>>

\* What the completion service may answer a single call with.
Answer == JObj([reason |-> "answer"])
SingleCallTexts ==
  {<<>>, <<Prose>>, <<Json(Answer)>>, <<Fence, Tag, Ws, Json(Answer), Ws, Fence>>,
   <<Json(JArr(<<Answer>>))>>, <<Json(JNull)>>}
SingleCallOutcomes == {Ok(t) : t \in SingleCallTexts} \cup {Failed(e) : e \in UpstreamErrors}

\* From the completion text to res.json; the batch handler reads
\* jsonResponse.length on the way, which throws on null.
SingleCallResponse(route, text) ==
  LET parsed == parseJSONResponse(RouteContentOrEmpty(route, text), RouteFallback(route))
  IN IF route = "citations-batch" /\ parsed = JNull
       THEN RouteCatch(route, TypeError)
       ELSE [status |-> 200, json |-> parsed]

VARIABLES
  pc,                   \* where the handler is: idle, awaitBenchmark, awaitReviewers, done, crashed
  body,                 \* req.body of the request
  benchmark,            \* the benchmark completion call
  comparativeBenchmark, \* the handler's variable of that name
  calls,                \* the three reviewer completion calls, by role
  issued,               \* completion calls issued so far, by call name
  responses,            \* what was written to res, in order
  rawText,              \* parseJSONResponse called on its own: its text argument
  fallback,             \* its fallback argument
  extracted,            \* what the call did
  route,                \* the endpoint the request went to, "none" before it arrives
  req,                  \* req.body of a request to a single-call endpoint
  completion,           \* the completion call of a single-call endpoint
  res                   \* what a single-call handler wrote to res, in order

\* The rate limiter mounted on /analyze, followed over many requests.
VARIABLES
  hits,                 \* the limiter's counter of the current window, by client
  sent,                 \* requests to /analyze paths sent in the current window, by client
  handled,              \* those of them passed on to a handler, by client
  last,                 \* how the client's latest request of the window ended
  wasLimited,           \* the client was answered 429 at some time
  healthServed          \* GET /health requests answered in the current window

limiterVars == <<hits, sent, handled, last, wasLimited, healthServed>>

\* Two review requests in flight at once, each with the variables its
\* handler invocation holds.
VARIABLES
  pair                  \* by request id: pc, body, benchmark, comparativeBenchmark, calls, responses

\* getProfileContext and the reviewer prompts on their own.
VARIABLES
  profileId,            \* getProfileContext called on its own: its argument
  profileContext,       \* what the call did
  sectionLen,           \* length of each section of a body that passed validation
  prompts               \* by role, the length of each section excerpt in its prompt

builderVars == <<profileId, profileContext, sectionLen, prompts>>

auxVars == <<limiterVars, pair, builderVars>>

vars == <<pc, body, benchmark, comparativeBenchmark, calls, issued, responses,
          rawText, fallback, extracted, route, req, completion, res, auxVars>>

reviewVars == <<pc, body, benchmark, comparativeBenchmark, calls, responses>>
singleCallVars == <<req, completion, res>>

extractorVars == <<rawText, fallback, extracted>>

NotCalled == [st |-> "notCalled"]
ReturnedValue(v) == [st |-> "returned", v |-> v]

ExtractorIdle ==
  /\ rawText = <<>>
  /\ fallback = JNull
  /\ extracted = NotCalled

HandlerIdle ==
  /\ pc = "idle"
  /\ body = MkBody("absent", NoSec, "absent", "absent")
  /\ benchmark = NotIssued
  /\ comparativeBenchmark = JNull
  /\ calls = [r \in Roles |-> NotIssued]
  /\ issued = [c \in CallNames |-> 0]
  /\ responses = <<>>
  /\ route = "none"
  /\ req = [route |-> "none"]
  /\ completion = NotIssued
  /\ res = <<>>

Clients == {"client1", "client2"}

LimiterIdle ==
  /\ hits = [c \in Clients |-> 0]
  /\ sent = [c \in Clients |-> 0]
  /\ handled = [c \in Clients |-> 0]
  /\ last = [c \in Clients |-> "none"]
  /\ wasLimited = [c \in Clients |-> FALSE]
  /\ healthServed = 0

RequestIds == {1, 2}

\* A handler invocation that has not started.
IdleRequest ==
  [pc |-> "idle", body |-> MkBody("absent", NoSec, "absent", "absent"),
   benchmark |-> NotIssued, comparativeBenchmark |-> JNull,
   calls |-> [r \in Roles |-> NotIssued], responses |-> <<>>]

PairIdle == pair = [i \in RequestIds |-> IdleRequest]

NotBuilt == [st |-> "notBuilt"]

BuilderIdle ==
  /\ profileId = [kind |-> "absent", text |-> <<>>]
  /\ profileContext = NotCalled
  /\ sectionLen = [n \in SectionNames |-> 0]
  /\ prompts = NotBuilt

AuxIdle == LimiterIdle /\ PairIdle /\ BuilderIdle

Init == HandlerIdle /\ ExtractorIdle /\ AuxIdle

\* Stage 2: the reviewerPromises array literal, then await Promise.all.
\* A prompt that throws leaves the earlier calls dispatched and lands in the
\* catch block.
StartReviewers(b) ==
  /\ calls' = [r \in Roles |-> IF RoleIndex(r) < FirstThrow(b) THEN Pending ELSE NotIssued]
  /\ issued' = [c \in CallNames |->
                  IF c \in Roles /\ RoleIndex(c) < FirstThrow(b) THEN issued[c] + 1 ELSE issued[c]]
  /\ IF FirstThrow(b) <= 3
       THEN responses' = Append(responses, CatchResponse(TypeError)) /\ pc' = "done"
       ELSE responses' = responses /\ pc' = "awaitReviewers"

\* A benchmark call dispatched together with the three reviewer calls.
StartBenchmarkConcurrent ==
  /\ benchmark' = Pending
  /\ calls' = [r \in Roles |-> Pending]
  /\ issued' = [c \in CallNames |-> IF c = "completion" THEN issued[c] ELSE issued[c] + 1]
  /\ pc' = "awaitBenchmark"
  /\ UNCHANGED responses

\* Stage 1 dispatch: await openai.chat.completions.create for the benchmark.
StartBenchmark ==
  /\ benchmark' = Pending
  /\ issued' = [issued EXCEPT !["benchmark"] = @ + 1]
  /\ pc' = "awaitBenchmark"
  /\ UNCHANGED <<calls, responses>>

\* The request arrives: the handler runs up to its first await or return.
ReceiveRequest(b) ==
  /\ pc = "idle"
  /\ route = "none"
  /\ route' = "review-paper"
  /\ body' = b
  /\ comparativeBenchmark' = JNull
  /\ UNCHANGED <<extractorVars, singleCallVars, auxVars>>
  /\ IF Validate(b) # "ok"
       THEN /\ responses' = Append(responses, [status |-> 400, error |-> Validate(b)])
            /\ pc' = "done"
            /\ UNCHANGED <<benchmark, calls, issued>>
       ELSE IF ThrowsOutsideTry(b)
              THEN \* thrown outside the try block: the async handler rejects
                   \* and writes nothing to res itself
                   /\ pc' = "crashed"
                   /\ \E w \in RejectedHandlerResponses : responses' = responses \o w
                   /\ UNCHANGED <<benchmark, calls, issued>>
              ELSE IF HasComparison(b)
                     THEN StartBenchmark
                     ELSE StartReviewers(b) /\ UNCHANGED benchmark

\* A benchmark stage without its own try/catch: a failed benchmark call
\* lands in the handler's catch block.
BenchmarkSettleUncaught(out) ==
  /\ pc = "awaitBenchmark"
  /\ benchmark = Pending
  /\ benchmark' = out
  /\ UNCHANGED <<extractorVars, route, singleCallVars, auxVars>>
  /\ IF out.st = "failed"
       THEN /\ responses' = Append(responses, CatchResponse(out.err))
            /\ pc' = "done"
            /\ UNCHANGED <<comparativeBenchmark, calls, issued>>
       ELSE /\ comparativeBenchmark' = BenchmarkParsed(out.content)
            /\ StartReviewers(body)
  /\ UNCHANGED body

\* The benchmark call settles: its failure is caught and logged, its text is
\* parsed with fallback null; then stage 2 starts.
BenchmarkSettle(out) ==
  /\ pc = "awaitBenchmark"
  /\ benchmark = Pending
  /\ benchmark' = out
  /\ UNCHANGED <<extractorVars, route, singleCallVars, auxVars>>
  /\ comparativeBenchmark' = IF out.st = "ok" THEN BenchmarkParsed(out.content) ELSE JNull
  /\ StartReviewers(body)
  /\ UNCHANGED body

\* Promise.all over the calls as they will be: rejected as soon as one call
\* rejects, fulfilled when all three are fulfilled, pending otherwise.
JoinRejects(cs, r) == cs[r].st = "failed"
JoinFulfilled(cs) == \A q \in Roles : cs[q].st = "ok"

\* Reviewer calls each with a catch of its own that answers: a rejection
\* writes a response whether or not the request was answered already.
ReviewerSettleAnswersAgain(r, out) ==
  /\ calls[r] = Pending
  /\ calls' = [calls EXCEPT ![r] = out]
  /\ IF out.st = "failed"
       THEN responses' = Append(responses, CatchResponse(out.err)) /\ pc' = "done"
       ELSE IF pc = "awaitReviewers" /\ JoinFulfilled(calls')
              THEN /\ responses' = Append(responses,
                                          ReviewResponse(calls'["Theorist"].content,
                                                         calls'["Experimentalist"].content,
                                                         calls'["Impact_Assessor"].content,
                                                         comparativeBenchmark))
                   /\ pc' = "done"
              ELSE UNCHANGED <<pc, responses>>
  /\ UNCHANGED <<body, benchmark, comparativeBenchmark, issued>>
  /\ UNCHANGED <<extractorVars, route, singleCallVars, auxVars>>

\* A reviewer call settles.  While the handler awaits Promise.all this may
\* resume it (catch block, or aggregation); after the response it is only
\* recorded.
ReviewerSettle(r, out) ==
  /\ calls[r] = Pending
  /\ calls' = [calls EXCEPT ![r] = out]
  /\ IF pc = "awaitReviewers" /\ JoinRejects(calls', r)
       THEN responses' = Append(responses, CatchResponse(out.err)) /\ pc' = "done"
       ELSE IF pc = "awaitReviewers" /\ JoinFulfilled(calls')
              THEN /\ responses' = Append(responses,
                                          ReviewResponse(calls'["Theorist"].content,
                                                         calls'["Experimentalist"].content,
                                                         calls'["Impact_Assessor"].content,
                                                         comparativeBenchmark))
                   /\ pc' = "done"
              ELSE UNCHANGED <<pc, responses>>
  /\ UNCHANGED <<body, benchmark, comparativeBenchmark, issued>>
  /\ UNCHANGED <<extractorVars, route, singleCallVars, auxVars>>

\* Validation that answers 400 without returning: the handler goes on to
\* its completion call.
ReceiveSingleCallNoReturn(rq) ==
  /\ route = "none"
  /\ route' = rq.route
  /\ req' = rq
  /\ res' = IF ValidateSingleCall(rq) # "ok"
              THEN Append(res, [status |-> 400, error |-> ValidateSingleCall(rq)])
              ELSE res
  /\ completion' = Pending
  /\ issued' = [issued EXCEPT !["completion"] = @ + 1]
  /\ UNCHANGED <<reviewVars, extractorVars, auxVars>>

\* A request to a single-call endpoint arrives: the handler runs up to its
\* await or to its return.
ReceiveSingleCall(rq) ==
  /\ route = "none"
  /\ route' = rq.route
  /\ req' = rq
  /\ IF ValidateSingleCall(rq) # "ok"
       THEN /\ res' = Append(res, [status |-> 400, error |-> ValidateSingleCall(rq)])
            /\ UNCHANGED <<completion, issued>>
       ELSE IF ProfileContextThrows(rq)
              THEN \* thrown outside the try block: the async handler rejects
                   \* and writes nothing to res itself
                   /\ \E w \in RejectedHandlerResponses : res' = res \o w
                   /\ UNCHANGED <<completion, issued>>
              ELSE IF CandidateListThrows(rq)
                     THEN /\ res' = Append(res, RouteCatch(rq.route, TypeError))
                          /\ UNCHANGED <<completion, issued>>
                     ELSE /\ completion' = Pending
                          /\ issued' = [issued EXCEPT !["completion"] = @ + 1]
                          /\ res' = res
  /\ UNCHANGED <<reviewVars, extractorVars, auxVars>>

\* The completion call settles: the handler parses and answers, or its catch
\* block answers.
CompletionSettle(out) ==
  /\ completion = Pending
  /\ completion' = out
  /\ res' = Append(res, IF out.st = "failed"
                          THEN RouteCatch(route, out.err)
                          ELSE SingleCallResponse(route, out.content))
  /\ UNCHANGED <<route, req, issued, reviewVars, extractorVars, auxVars>>

Next ==
  \/ \E b \in Bodies : ReceiveRequest(b)
  \/ \E out \in BenchmarkOutcomes : BenchmarkSettle(out)
  \/ \E r \in Roles, out \in ReviewerOutcomes : ReviewerSettle(r, out)
  \/ \E rq \in SingleCallRequests : ReceiveSingleCall(rq)
  \/ \E out \in SingleCallOutcomes : CompletionSettle(out)

Spec == Init /\ [][Next]_vars

\* The same handlers with upstream calls that settle: a call that is
\* outstanding is eventually fulfilled or rejected (the premise under which
\* the service promises an answer).
FairSpec ==
  /\ Init
  /\ [][Next]_vars
  /\ WF_vars(\E out \in BenchmarkOutcomes : BenchmarkSettle(out))
  /\ \A r \in Roles : WF_vars(\E out \in ReviewerOutcomes : ReviewerSettle(r, out))
  /\ WF_vars(\E out \in SingleCallOutcomes : CompletionSettle(out))

\* ------------------------------------------- the extractor on its own
\* Values a fenced or bare payload may carry; the last has a string that
\* holds a triple backtick.
PayloadA == JObj(FullVerdict(40))
PayloadB == JObj(FullVerdict(80))
FenceInString == "a string with a triple backtick in it"
PayloadWithFence ==
  JObj([score |-> 70, strengths |-> <<>>, weaknesses |-> <<>>, comment |-> FenceInString])

\* What may stand between the fences of a block, or on its own.
Interiors ==
  {<<>>, <<Prose>>, <<Json(PayloadA)>>, <<Json(PayloadB)>>,
   <<JsonHead(PayloadWithFence), Fence, JsonTail>>}

Segments ==
  {<<Fence>> \o tag \o pad \o inner \o pad \o <<Fence>> :
     tag \in {<<>>, <<Tag>>}, pad \in {<<>>, <<Ws>>}, inner \in Interiors}
  \cup Interiors \cup {<<Ws>>, <<Fence>>, <<Tag>>}

RECURSIVE TextsOf(_)
TextsOf(n) ==
  IF n = 0 THEN {<<>>}
  ELSE TextsOf(n - 1)
         \cup {t \o sep \o g : t \in TextsOf(n - 1), sep \in {<<>>, <<Ws>>}, g \in Segments}

RawTexts == TextsOf(MaxSegments)
Fallbacks == {JNull, DefaultVerdict}

ExtractInit ==
  /\ HandlerIdle
  /\ AuxIdle
  /\ rawText \in RawTexts
  /\ fallback \in Fallbacks
  /\ extracted = NotCalled

\* One call parseJSONResponse(rawText, fallback): the try block covers the
\* whole body, so the call returns in every case.
Extract ==
  /\ extracted = NotCalled
  /\ extracted' = ReturnedValue(parseJSONResponse(rawText, fallback))
  /\ UNCHANGED <<reviewVars, issued, rawText, fallback, route, singleCallVars, auxVars>>

ExtractNext == Extract

ExtractSpec == ExtractInit /\ [][ExtractNext]_vars

\* ------------------------------------------------- vocabulary of claims
Responded == responses # <<>>
Returned == Responded /\ responses[1].status = 200

\* Completion texts that carry one well-formed verdict, bare or fenced, and
\* the verdict they carry (read off the text, not through the extractor).
WellFormedTexts == {<<Json(JObj(v))>> : v \in FullVerdicts} \cup FencedTexts
CarriedVerdict(text) == text[CHOOSE i \in 1..Len(text) : text[i].t = "json"].v.o

\* What a reviewerScores entry shows of a verdict.
Shows(entry, o) ==
  /\ {"score", "strengths", "weaknesses", "detailedComment"} \subseteq DOMAIN entry
  /\ entry["score"] = o.score
  /\ entry["strengths"] = o.strengths
  /\ entry["weaknesses"] = o.weaknesses
  /\ entry["detailedComment"] = o.comment

DeclaredDefault == [score |-> 50, strengths |-> <<>>, weaknesses |-> <<>>, comment |-> ""]

EntryOf(r) == responses[1].outcome.reviewerScores[RoleIndex(r)]

\* The body fails the validation the spec asks for.
InvalidBody(b) ==
  \/ b.sectionsKind \in {"absent", "nonObject"}
  \/ \E n \in RequiredSections : b.sec[n] \in {"absent", "empty"}

AllDispatched == \A r \in Roles : issued[r] = 1
AllOk == \A r \in Roles : calls[r].st = "ok"

\* ---------------------------------------------------------------- claims

\* C1 (as claimed): when exactly one reviewer call fails (here with a
\* failure that is no timeout) and the other two succeed with well-formed
\* verdicts, the request is answered 200 with the
\* failed reviewer at the declared default and the other two as parsed.
C1_PartialFailureDegrades ==
  \A r \in Roles :
    (/\ pc = "done"
     /\ calls[r] = Failed(ErrOther)
     /\ \A q \in Roles \ {r} : calls[q].st = "ok" /\ calls[q].content \in WellFormedTexts)
    => /\ Returned
       /\ Shows(EntryOf(r), DeclaredDefault)
       /\ \A q \in Roles \ {r} : Shows(EntryOf(q), CarriedVerdict(calls[q].content))

\* C2 (as claimed): once the three reviewer calls are dispatched, no response
\* is written while one of them is still outstanding.
C2_ResponseOnlyAfterAllSettled ==
  (AllDispatched /\ Responded) => \A r \in Roles : calls[r] # Pending

\* C3: a body without a sections object, or with a required section absent
\* or empty, is answered 400 and no completion call is issued for it.
C3_InvalidBodyRejectedWithoutCalls ==
  (pc # "idle" /\ InvalidBody(body))
    => /\ pc = "done"
       /\ Len(responses) = 1
       /\ responses[1].status = 400
       /\ \A c \in CallNames : issued[c] = 0
       /\ benchmark = NotIssued
       /\ \A r \in Roles : calls[r] = NotIssued

C3_Witness ==
  /\ pc = "done"
  /\ body.sectionsKind = "object"
  /\ body.sec["method"] = "absent"
  /\ body.accepted = "texts"
  /\ responses[1].status = 400

\* C4: when all three reviewer calls succeed and one text is not JSON, that
\* reviewer's verdict is the default, the other two are as carried, and the
\* request returns an outcome.
C4_UnparseableReviewerDefaults ==
  \A r \in Roles :
    (/\ pc = "done"
     /\ AllOk
     /\ calls[r].content \in GarbageTexts
     /\ \A q \in Roles \ {r} : calls[q].content \in WellFormedTexts)
    => /\ Returned
       /\ Shows(EntryOf(r), DeclaredDefault)
       /\ \A q \in Roles \ {r} : Shows(EntryOf(q), CarriedVerdict(calls[q].content))

C4_Witness ==
  /\ Returned
  /\ AllOk
  /\ calls["Experimentalist"].content = <<Fence, Tag, Ws, Prose>>
  /\ calls["Theorist"].content \in FencedTexts
  /\ calls["Impact_Assessor"].content = <<Json(JObj(FullVerdict(80)))>>
  /\ Shows(EntryOf("Experimentalist"), DeclaredDefault)

\* Texts that are valid JSON objects of another shape, the empty content
\* (replaced by "{}") included.
MisShapedTexts == {<<>>} \cup {<<Json(JObj(v))>> : v \in MisShaped}

\* C5 (as claimed): when the reviewers' completions are valid JSON objects
\* lacking fields, the request still returns an outcome and the missing
\* fields are shown as empties.
C5_MisShapedStillReturns ==
  (/\ pc = "done"
   /\ AllOk
   /\ \A r \in Roles : calls[r].content \in MisShapedTexts \cup WellFormedTexts)
  => /\ Returned
     /\ \A r \in Roles :
          {"score", "strengths", "weaknesses", "detailedComment"} \subseteq DOMAIN EntryOf(r)

\* The benchmark call ended without a usable result.
BadBenchmark ==
  \/ benchmark.st = "failed"
  \/ benchmark.st = "ok" /\ benchmark.content \in GarbageTexts

\* Both sample lists are absent or empty.
NoSamples(b) ==
  b.accepted \in {"absent", "emptyArray"} /\ b.rejected \in {"absent", "emptyArray"}

StringSections(b) == \A n \in SectionNames : b.sec[n] # "nonString"

\* C6: a benchmark call that fails or whose text cannot be parsed does not
\* fail the request: the three reviewers are dispatched, no response is
\* written before a reviewer call settles, well-formed reviewer verdicts give
\* an outcome, and a returned outcome has no comparativeBenchmark.  Without
\* samples no benchmark call is issued and the field is absent.
C6_BenchmarkBestEffort ==
  /\ (BadBenchmark /\ StringSections(body))
       => /\ AllDispatched
          /\ (Responded => \E r \in Roles : calls[r] # Pending)
          /\ (pc = "done" /\ AllOk /\ (\A r \in Roles : calls[r].content \in WellFormedTexts)
                => Returned)
          /\ (Returned => responses[1].outcome.comparativeBenchmark = JUndefined)
  /\ (pc # "idle" /\ NoSamples(body))
       => /\ issued["benchmark"] = 0
          /\ benchmark = NotIssued
          /\ (Returned => responses[1].outcome.comparativeBenchmark = JUndefined)

C6_Witness ==
  /\ Returned
  /\ benchmark = Failed(ErrTimeout)
  /\ body.accepted = "texts"
  /\ responses[1].outcome.comparativeBenchmark = JUndefined

\* C7 (as claimed): a returned outcome whose three verdicts show a score has
\* an overallScore within [0,10].
C7_OverallScoreInRange ==
  (Returned /\ \A r \in Roles : "score" \in DOMAIN EntryOf(r))
    => /\ ~responses[1].outcome.overallScore.nan
       /\ responses[1].outcome.overallScore.val >= 0
       /\ responses[1].outcome.overallScore.val <= 100

Rank(rec) ==
  CASE rec = "reject" -> 0
    [] rec = "weak_reject" -> 1
    [] rec = "borderline_reject" -> 2
    [] rec = "borderline_accept" -> 3
    [] rec = "weak_accept" -> 4
    [] rec = "strong_accept" -> 5

\* C8: the recommendation of a returned outcome is the tier of the threshold
\* table for the returned overallScore (reject when it is no number), and no
\* lower score is given a higher tier.
C8_RecommendationFollowsTable ==
  Returned =>
    LET o == responses[1].outcome.overallScore
        rec == responses[1].outcome.recommendation
    IN /\ rec \in {"reject", "weak_reject", "borderline_reject", "borderline_accept",
                   "weak_accept", "strong_accept"}
       /\ rec = "strong_accept" <=> (~o.nan /\ o.val >= 80)
       /\ rec = "weak_accept" <=> (~o.nan /\ o.val >= 70 /\ o.val < 80)
       /\ rec = "borderline_accept" <=> (~o.nan /\ o.val >= 60 /\ o.val < 70)
       /\ rec = "borderline_reject" <=> (~o.nan /\ o.val >= 50 /\ o.val < 60)
       /\ rec = "weak_reject" <=> (~o.nan /\ o.val >= 40 /\ o.val < 50)
       /\ rec = "reject" <=> (o.nan \/ o.val < 40)
       /\ ~o.nan => \A t \in 0..(10 * MaxScore) :
                      t <= o.val => Rank(Recommendation(Num(t))) <= Rank(rec)

\* The mean 7.97 is returned as 8.0 and is given the tier of 8.0.
C8_Witness ==
  /\ Returned
  /\ calls["Theorist"].content = <<Json(JObj(FullVerdict(79)))>>
  /\ calls["Experimentalist"].content = <<Json(JObj(FullVerdict(80)))>>
  /\ calls["Impact_Assessor"].content = <<Json(JObj(FullVerdict(80)))>>
  /\ responses[1].outcome.overallScore = Num(80)
  /\ responses[1].outcome.recommendation = "strong_accept"

\* C9 (as claimed): the overallScore of a returned outcome is the mean of the
\* three scores its reviewerScores show, rounded to one decimal place.
C9_OverallIsRoundedMean ==
  Returned =>
    /\ \A r \in Roles : "score" \in DOMAIN EntryOf(r)
    /\ ~responses[1].outcome.overallScore.nan
    /\ LET sum == EntryOf("Theorist")["score"] + EntryOf("Experimentalist")["score"]
                    + EntryOf("Impact_Assessor")["score"]
           o == responses[1].outcome.overallScore.val
       IN 3 * o - sum <= 1 /\ sum - 3 * o <= 1

\* C10 (as claimed): the acceptProbability of a returned outcome is a number
\* within [0,100].
C10_AcceptProbabilityInRange ==
  Returned =>
    /\ ~responses[1].outcome.acceptProbability.nan
    /\ responses[1].outcome.acceptProbability.val >= 0
    /\ responses[1].outcome.acceptProbability.val <= 100

\* The tier the threshold table gives a whole score.
TierOfWhole(n) ==
  IF n >= 8 THEN "strong_accept"
  ELSE IF n >= 7 THEN "weak_accept"
  ELSE IF n >= 6 THEN "borderline_accept"
  ELSE IF n >= 5 THEN "borderline_reject"
  ELSE IF n >= 4 THEN "weak_reject"
  ELSE "reject"

AllShowScore(n) == \A r \in Roles : "score" \in DOMAIN EntryOf(r) /\ EntryOf(r)["score"] = n

\* C11: acceptProbability is (overallScore - 3) * 16.67 clamped to [0,100]
\* and rounded to the nearest integer, taken on the returned overallScore;
\* three equal whole scores s give overallScore s and the tier of s; three
\* 8s give 8.0, strong_accept and 83; 3 gives 0 and 9 gives 100.
C11_AcceptProbabilityFormula ==
  Returned =>
    LET o == responses[1].outcome.overallScore
        ap == responses[1].outcome.acceptProbability
        rec == responses[1].outcome.recommendation
        x == (o.val - 30) * 1667
        c == IF x < 0 THEN 0 ELSE IF x > 100000 THEN 100000 ELSE x
    IN /\ o.nan <=> ap.nan
       /\ ~o.nan => (1000 * ap.val <= c + 500 /\ 1000 * ap.val > c - 500)
       /\ \A n \in 0..MaxScore : AllShowScore(10 * n) => (o = Num(10 * n) /\ rec = TierOfWhole(n))
       /\ AllShowScore(80) => (o = Num(80) /\ rec = "strong_accept" /\ ap = Num(83))
       /\ o = Num(30) => ap = Num(0)
       /\ o = Num(90) => ap = Num(100)

C11_Witness ==
  /\ Returned
  /\ \A r \in Roles : calls[r] = Ok(<<Json(JObj(FullVerdict(80)))>>)
  /\ responses[1].outcome.overallScore = Num(80)
  /\ responses[1].outcome.recommendation = "strong_accept"
  /\ responses[1].outcome.acceptProbability = Num(83)

\* C12: criticalIssues has at most 5 entries: the first 5 (or fewer) of the
\* Theorist's weaknesses in their order followed by the Experimentalist's in
\* their order.
C12_CriticalIssuesFirstFive ==
  Returned =>
    LET ci == responses[1].outcome.criticalIssues
        a == EntryOf("Theorist")["weaknesses"]
        b == EntryOf("Experimentalist")["weaknesses"]
    IN /\ Len(ci) <= 5
       /\ Len(ci) = (IF Len(a) + Len(b) < 5 THEN Len(a) + Len(b) ELSE 5)
       /\ \A k \in 1..Len(ci) :
            IF k <= Len(a)
              THEN ci[k].issue = a[k] /\ ci[k].category = "novelty"
              ELSE ci[k].issue = b[k - Len(a)] /\ ci[k].category = "experiment"

\* 4 Theorist and 3 Experimentalist weaknesses: the 4, then the first of the 3.
C12_Witness ==
  /\ Returned
  /\ calls["Theorist"] = Ok(<<Json(JObj(FullVerdict(80)))>>)
  /\ calls["Experimentalist"] = Ok(<<Json(JObj(ShorterVerdict))>>)
  /\ Len(responses[1].outcome.criticalIssues) = 5
  /\ responses[1].outcome.criticalIssues[4].issue = <<"weakness", 4>>
  /\ responses[1].outcome.criticalIssues[5].issue = <<"flaw", 1>>

\* C13: every criticalIssues entry is a Theorist weakness (novelty, medium,
\* issue_a<i>, i its 0-based index) or an Experimentalist weakness
\* (experiment, high, issue_b<i>); none comes from the Impact_Assessor.
C13_IssuesTaggedBySource ==
  Returned =>
    LET ci == responses[1].outcome.criticalIssues
        a == EntryOf("Theorist")["weaknesses"]
        b == EntryOf("Experimentalist")["weaknesses"]
    IN \A k \in 1..Len(ci) :
         \/ \E i \in 1..Len(a) :
              ci[k] = [id |-> <<"issue_a", i - 1>>, severity |-> "medium",
                       category |-> "novelty", issue |-> a[i]]
         \/ \E i \in 1..Len(b) :
              ci[k] = [id |-> <<"issue_b", i - 1>>, severity |-> "high",
                       category |-> "experiment", issue |-> b[i]]

\* The Impact_Assessor alone reports flaws; none of them is listed.
C13_Witness ==
  /\ Returned
  /\ calls["Theorist"] = Ok(<<Json(JObj(FullVerdict(40)))>>)
  /\ calls["Experimentalist"] = Ok(<<Json(JObj(FullVerdict(80)))>>)
  /\ calls["Impact_Assessor"] = Ok(<<Json(JObj(ShorterVerdict))>>)
  /\ Len(responses[1].outcome.criticalIssues) = 5
  /\ responses[1].outcome.criticalIssues[5].id = <<"issue_b", 0>>
  /\ \A k \in 1..5 : responses[1].outcome.criticalIssues[k].issue[1] = "weakness"

\* C14: reviewerScores has three entries in the order Theorist,
\* Experimentalist, Impact_Assessor, and each shows the verdict of the
\* completion dispatched for its role (the default for a text that is no
\* JSON), whatever the order in which the calls settled.
C14_ReviewerScoresByRole ==
  Returned =>
    /\ Len(responses[1].outcome.reviewerScores) = 3
    /\ \A i \in 1..3 : responses[1].outcome.reviewerScores[i]["persona"] = RoleOrder[i]
    /\ EntryOf("Theorist")["focus"] = "novelty_and_formalism"
    /\ EntryOf("Experimentalist")["focus"] = "empirical_rigor"
    /\ EntryOf("Impact_Assessor")["focus"] = "significance_and_impact"
    /\ \A r \in Roles :
         /\ calls[r].content \in WellFormedTexts
              => Shows(EntryOf(r), CarriedVerdict(calls[r].content))
         /\ calls[r].content \in GarbageTexts => Shows(EntryOf(r), DeclaredDefault)

C14_Witness ==
  /\ Returned
  /\ calls["Theorist"] = Ok(<<Json(JObj(FullVerdict(0)))>>)
  /\ calls["Experimentalist"] = Ok(<<Json(JObj(ShorterVerdict))>>)
  /\ calls["Impact_Assessor"] = Ok(<<Json(JObj(FullVerdict(10 * MaxScore)))>>)
  /\ EntryOf("Theorist")["score"] = 0
  /\ EntryOf("Experimentalist")["score"] = 70
  /\ EntryOf("Impact_Assessor")["score"] = 10 * MaxScore

\* ------------------------------------------------------ the rate limiter
\* rateLimit({windowMs: 60 * 1000, max: 30}) mounted with
\* app.use("/analyze", limiter): one counter per client (req.ip), shared by
\* every path under /analyze.  A request raises the counter of its client;
\* above the maximum it is answered 429 and not passed on, otherwise next()
\* passes it on to the handler of its path.  When the window has elapsed the
\* counters start again from 0.
LimiterMax == 30

\* Requests of one client followed beyond the maximum in one window.
MaxOver == 2

Paths == {"/analyze/term", "/analyze/citations-batch", "/analyze/format",
          "/analyze/format-reference", "/analyze/cite", "/analyze/review-paper", "/health"}

\* app.use("/analyze", limiter): the paths the limiter sees.
Limited(path) == path # "/health"

\* What the limiter does with a request that made its client's count n.
\* A limiter that turns away the request that reaches the maximum.
LimiterAnswerAtMax(n) == IF n >= LimiterMax THEN "limited" ELSE "handled"

LimiterAnswer(n) == IF n > LimiterMax THEN "limited" ELSE "handled"

\* A request of client c for path arrives.
Request(c, path) ==
  /\ IF path = "/health"
       THEN /\ healthServed < MaxOver
            /\ healthServed' = healthServed + 1
            /\ UNCHANGED <<hits, sent, handled, last, wasLimited>>
       ELSE /\ sent[c] < LimiterMax + MaxOver
            /\ sent' = [sent EXCEPT ![c] = @ + 1]
            /\ IF Limited(path)
                 THEN /\ hits' = [hits EXCEPT ![c] = @ + 1]
                      /\ last' = [last EXCEPT ![c] = LimiterAnswer(hits[c] + 1)]
                      /\ handled' = [handled EXCEPT
                                       ![c] = IF LimiterAnswer(hits[c] + 1) = "handled"
                                                THEN @ + 1 ELSE @]
                      /\ wasLimited' = [wasLimited EXCEPT
                                          ![c] = @ \/ LimiterAnswer(hits[c] + 1) = "limited"]
                 ELSE /\ last' = [last EXCEPT ![c] = "handled"]
                      /\ handled' = [handled EXCEPT ![c] = @ + 1]
                      /\ UNCHANGED <<hits, wasLimited>>
            /\ UNCHANGED healthServed
  /\ UNCHANGED <<reviewVars, issued, extractorVars, route, singleCallVars, pair, builderVars>>

\* windowMs have passed: the store starts every client again from 0.
WindowElapses ==
  /\ \E c \in Clients : sent[c] > 0
  /\ hits' = [c \in Clients |-> 0]
  /\ sent' = [c \in Clients |-> 0]
  /\ handled' = [c \in Clients |-> 0]
  /\ last' = [c \in Clients |-> "none"]
  /\ healthServed' = 0
  /\ UNCHANGED wasLimited
  /\ UNCHANGED <<reviewVars, issued, extractorVars, route, singleCallVars, pair, builderVars>>

LimiterNext ==
  \/ \E c \in Clients, path \in Paths : Request(c, path)
  \/ WindowElapses

LimiterSpec == Init /\ [][LimiterNext]_vars

\* ------------------------------------------- two requests in flight
\* Each invocation of the review-paper handler has its own req, res and
\* local variables; the steps are those of ReceiveRequest, BenchmarkSettle
\* and ReviewerSettle, taken on the record of one invocation.
PairBodies ==
  {MkBody("object", BaseSec, "absent", "absent"), MkBody("object", BaseSec, "texts", "absent")}
PairReviewerOutcomes ==
  {Ok(<<Json(JObj(FullVerdict(80)))>>), Failed(ErrOther), Failed(ErrTimeout)}
PairBenchmarkOutcomes ==
  {Ok(<<Fence, Tag, Ws, Json(JObj(Benchmark)), Ws, Fence>>), Failed(ErrOther)}

\* Stage 2 dispatch on an invocation.
ReviewersStarted(rec) ==
  LET cs == [r \in Roles |-> IF RoleIndex(r) < FirstThrow(rec.body) THEN Pending ELSE NotIssued]
  IN IF FirstThrow(rec.body) <= 3
       THEN [rec EXCEPT !.calls = cs, !.pc = "done",
                        !.responses = Append(@, CatchResponse(TypeError))]
       ELSE [rec EXCEPT !.calls = cs, !.pc = "awaitReviewers"]

\* The invocation after it ran to its first await or return.
Received(b) ==
  LET rec == [IdleRequest EXCEPT !.body = b]
  IN IF Validate(b) # "ok"
       THEN [rec EXCEPT !.pc = "done",
                        !.responses = Append(@, [status |-> 400, error |-> Validate(b)])]
       ELSE IF ThrowsOutsideTry(b)
              THEN [rec EXCEPT !.pc = "crashed"]
              ELSE IF HasComparison(b)
                     THEN [rec EXCEPT !.pc = "awaitBenchmark", !.benchmark = Pending]
                     ELSE ReviewersStarted(rec)

BenchmarkSettled(rec, out) ==
  ReviewersStarted([rec EXCEPT !.benchmark = out,
                               !.comparativeBenchmark =
                                 IF out.st = "ok" THEN BenchmarkParsed(out.content) ELSE JNull])

ReviewerSettled(rec, r, out) ==
  LET cs == [rec.calls EXCEPT ![r] = out]
  IN IF rec.pc = "awaitReviewers" /\ JoinRejects(cs, r)
       THEN [rec EXCEPT !.calls = cs, !.pc = "done",
                        !.responses = Append(@, CatchResponse(out.err))]
       ELSE IF rec.pc = "awaitReviewers" /\ JoinFulfilled(cs)
              THEN [rec EXCEPT !.calls = cs, !.pc = "done",
                               !.responses =
                                 Append(@, ReviewResponse(cs["Theorist"].content,
                                                          cs["Experimentalist"].content,
                                                          cs["Impact_Assessor"].content,
                                                          rec.comparativeBenchmark))]
              ELSE [rec EXCEPT !.calls = cs]

pairOthers == <<reviewVars, issued, extractorVars, route, singleCallVars, limiterVars, builderVars>>

PairReceive(i, b) ==
  /\ pair[i].pc = "idle"
  /\ pair' = [pair EXCEPT ![i] = Received(b)]
  /\ UNCHANGED pairOthers

PairBenchmarkSettle(i, out) ==
  /\ pair[i].pc = "awaitBenchmark"
  /\ pair[i].benchmark = Pending
  /\ pair' = [pair EXCEPT ![i] = BenchmarkSettled(@, out)]
  /\ UNCHANGED pairOthers

PairReviewerSettle(i, r, out) ==
  /\ pair[i].calls[r] = Pending
  /\ pair' = [pair EXCEPT ![i] = ReviewerSettled(@, r, out)]
  /\ UNCHANGED pairOthers

PairNext ==
  \/ \E i \in RequestIds, b \in PairBodies : PairReceive(i, b)
  \/ \E i \in RequestIds, out \in PairBenchmarkOutcomes : PairBenchmarkSettle(i, out)
  \/ \E i \in RequestIds, r \in Roles, out \in PairReviewerOutcomes : PairReviewerSettle(i, r, out)

PairSpec == Init /\ [][PairNext]_vars

\* ---------------------------------------- vocabulary of extractor claims
FencePositions(text) == {i \in 1..Len(text) : text[i] = Fence}

\* The text is one JSON value, white space around it aside.
IsOneJson(text) ==
  \/ \E v \in {PayloadA, PayloadB} : Trim(text) = <<Json(v)>>
  \/ Trim(text) = <<JsonHead(PayloadWithFence), Fence, JsonTail>>

\* What lies between the fences at i and j, a tag after the opening one aside.
Between(text, i, j) ==
  IF i + 1 < j /\ text[i + 1] = Tag THEN SubSeq(text, i + 2, j - 1) ELSE SubSeq(text, i + 1, j - 1)

NoParseableBlock(text) ==
  \A i, j \in FencePositions(text) : i < j => ~IsOneJson(Between(text, i, j))

\* C15: the extractor returns to its caller in every case, and for the empty
\* string and for any text that is not JSON and has no parseable fenced
\* block it returns the fallback it was given, as it was given.
C15_FallbackOnGarbage ==
  /\ extracted.st \in {"notCalled", "returned"}
  /\ (extracted.st = "returned" /\ ~IsOneJson(rawText) /\ NoParseableBlock(rawText))
       => extracted.v = fallback
  /\ (extracted.st = "returned" /\ rawText = <<>>) => extracted.v = fallback

C15_Witness ==
  /\ rawText = <<Prose, Ws, Fence, Tag, Ws, Prose, Ws, Fence>>
  /\ fallback = DefaultVerdict
  /\ extracted = ReturnedValue(DefaultVerdict)

\* JSON.stringify of an object, and the object fenced as the round trip asks.
Stringify(v) ==
  IF v.o.comment = FenceInString THEN <<JsonHead(v), Fence, JsonTail>> ELSE <<Json(v)>>

FencedJson(v) == <<Fence, Tag, Ws>> \o Stringify(v) \o <<Ws, Fence>>

\* C16 (as claimed): for every object, one with a string that holds a triple
\* backtick included, extracting the json-tagged fenced serialisation of the
\* object returns the object.
C16_FencedRoundTrip ==
  \A v \in {PayloadA, PayloadB, PayloadWithFence} :
    (rawText = FencedJson(v) /\ extracted.st = "returned") => extracted.v = v

\* The text holds two fenced blocks or more and no fence inside a string.
SeveralBlocks(text) ==
  /\ Cardinality(FencePositions(text)) >= 4
  /\ \A i \in 1..Len(text) : text[i].t # "jsonHead"

\* The interior of the first fenced block in text order.
FirstBlock(text) ==
  LET first == Min(FencePositions(text))
  IN Between(text, first, Min(FencePositions(text) \ {first}))

\* C17 (as claimed): of several fenced blocks, tagged or not and in any
\* order, the first in text order is the one parsed; the later blocks have no
\* influence on the result.
C17_FirstBlockWins ==
  (SeveralBlocks(rawText) /\ extracted.st = "returned")
    => extracted.v = (IF IsOneJson(FirstBlock(rawText))
                        THEN Trim(FirstBlock(rawText))[1].v
                        ELSE fallback)

\* ------------------------------------- vocabulary of the endpoint claims
\* The reviewer calls that failed all failed with e, and one did.
ReviewFailedOnlyWith(e) ==
  /\ route = "review-paper"
  /\ AllDispatched
  /\ \E r \in Roles : calls[r] = Failed(e)
  /\ \A r \in Roles : calls[r].st = "failed" => calls[r] = Failed(e)

\* C18 (as claimed): on each of the six endpoints a completion call that
\* fails with a timeout, and has no fallback, is answered 504.
C18_TimeoutAnswered504 ==
  /\ (route \in SingleCallRoutes /\ completion = Failed(ErrTimeout))
       => Len(res) = 1 /\ res[1].status = 504
  /\ ReviewFailedOnlyWith(ErrTimeout) => Len(responses) = 1 /\ responses[1].status = 504

\* C19 (as claimed): on each of the six endpoints a completion call that
\* fails with status 429, and has no fallback, is answered 429.
C19_RateLimitAnswered429 ==
  /\ (route \in SingleCallRoutes /\ completion = Failed(ErrRateLimited))
       => Len(res) = 1 /\ res[1].status = 429
  /\ ReviewFailedOnlyWith(ErrRateLimited) => Len(responses) = 1 /\ responses[1].status = 429

RejectedWithoutCall ==
  /\ Len(res) = 1
  /\ res[1].status = 400
  /\ completion = NotIssued
  /\ \A c \in CallNames : issued[c] = 0

\* C20: a citations-batch request whose candidates is no array, is empty or
\* has more than 100 entries, and a format-reference request whose input is
\* missing, empty or no string, is answered 400 without a completion call; a
\* batch of exactly 100 candidates is not turned away and, its entries and
\* profileId being well-formed, issues exactly one completion call.
C20_InputLimits ==
  /\ (route = "citations-batch"
        /\ (~req.candidates.isArray \/ req.candidates.len = 0 \/ req.candidates.len > 100))
       => RejectedWithoutCall
  /\ (route = "format-reference" /\ req.input \in {"absent", "empty", "nonString"})
       => RejectedWithoutCall
  /\ (route = "citations-batch" /\ req.candidates.isArray /\ req.candidates.len = 100)
       => /\ \A i \in 1..Len(res) : res[i].status # 400
          /\ (~req.candidates.hasNull /\ req.profileId # "nonString")
               => issued["completion"] = 1 /\ completion # NotIssued

C20_Witness ==
  /\ route = "citations-batch"
  /\ req.candidates = [isArray |-> TRUE, len |-> 100, hasNull |-> FALSE]
  /\ issued["completion"] = 1
  /\ completion = Ok(<<Json(JArr(<<Answer>>))>>)
  /\ res = <<[status |-> 200, json |-> JArr(<<Answer>>)]>>

\* C21: within one window at most 30 requests of a client are passed on to
\* /analyze handlers, whatever their paths: of the requests a client sent to
\* /analyze paths in the window the first 30 are handled and the 31st and
\* later are answered 429 and handled by no handler (so cause no completion
\* call); what another client sent and GET /health requests do not count;
\* after the window has elapsed the client is admitted again.
C21_SharedRateLimit ==
  \A c \in Clients :
    /\ handled[c] <= 30
    /\ handled[c] = (IF sent[c] <= 30 THEN sent[c] ELSE 30)
    /\ last[c] = "limited" <=> sent[c] > 30
    /\ last[c] = "handled" <=> (sent[c] >= 1 /\ sent[c] <= 30)
    /\ last[c] = "none" <=> sent[c] = 0

\* A client turned away in an earlier window is handled again while another
\* client is being turned away and /health has been served.
C21_Witness ==
  /\ wasLimited["client1"]
  /\ last["client1"] = "handled"
  /\ sent["client1"] = 1
  /\ last["client2"] = "limited"
  /\ handled["client2"] = 30
  /\ healthServed > 0

\* Every call the invocation dispatched has settled.
AllSettled(rec) ==
  /\ rec.pc = "done"
  /\ rec.benchmark # Pending
  /\ \A r \in Roles : rec.calls[r] # Pending

\* C22 (as claimed): two review requests with the same body whose calls got
\* the same results are answered alike, in whatever order the calls of each
\* settled and however the two requests interleaved.
C22_SameInputsSameResponse ==
  \A i, j \in RequestIds :
    (/\ AllSettled(pair[i])
     /\ AllSettled(pair[j])
     /\ pair[i].body = pair[j].body
     /\ pair[i].benchmark = pair[j].benchmark
     /\ pair[i].calls = pair[j].calls)
    => pair[i].responses = pair[j].responses

\* C23: a review request that ends with a timeout is answered 504 with an
\* error and no field of a ReviewOutcome, and what its calls deliver after
\* that neither changes the response nor adds another one.
C23_TimeoutNoPartialOutcome ==
  /\ [](\A i \in 1..Len(responses) :
          responses[i].status = 504
            => /\ DOMAIN responses[i] = {"status", "error"}
               /\ Len(responses) = 1
               /\ \E r \in Roles : calls[r] = Failed(ErrTimeout))
  /\ [][(responses # <<>> /\ responses[1].status = 504) => responses' = responses]_vars

\* The timeout came first; the generic failure settled after the response.
C23_Witness ==
  /\ responses = <<CatchResponse(ErrTimeout)>>
  /\ responses[1].status = 504
  /\ calls["Theorist"] = Failed(ErrOther)
  /\ calls["Experimentalist"] = Failed(ErrTimeout)
  /\ calls["Impact_Assessor"].st = "ok"

\* C24: the benchmark call and a reviewer call of the request are never
\* outstanding together: when a reviewer call has been dispatched, the
\* benchmark call, if the request uses one, has settled.
C24_BenchmarkBeforeReviewers ==
  /\ ~(benchmark = Pending /\ \E r \in Roles : calls[r] = Pending)
  /\ benchmark = Pending => \A r \in Roles : issued[r] = 0 /\ calls[r] = NotIssued
  /\ (issued["benchmark"] > 0 /\ \E r \in Roles : issued[r] > 0)
       => benchmark.st \in {"ok", "failed"}

C24_Witness ==
  /\ benchmark = Failed(ErrOther)
  /\ issued["benchmark"] = 1
  /\ \A r \in Roles : calls[r] = Pending

\* C25: a review request that passes validation issues exactly one call per
\* reviewer role, none of them a second time after a failure, and one
\* benchmark call exactly when acceptedSamples or rejectedSamples is a
\* non-empty array; no request issues more than four calls.
C25_CallCounts ==
  /\ \A c \in CallNames : issued[c] <= 1
  /\ issued["Theorist"] + issued["Experimentalist"] + issued["Impact_Assessor"]
       + issued["benchmark"] + issued["completion"] <= 4
  /\ (route = "review-paper" /\ ~InvalidBody(body))
       => /\ issued["benchmark"]
               = (IF body.accepted \in {"texts", "nullElement"}
                       \/ body.rejected \in {"texts", "nullElement"}
                    THEN 1 ELSE 0)
          /\ (benchmark # Pending => \A r \in Roles : issued[r] = 1)

\* The body is a review task as the data model has it: a sections mapping
\* whose required sections are non-empty texts, sample lists of excerpts (or
\* no lists), a profileId that is a string if present.
WellFormedTask(b) ==
  /\ ~InvalidBody(b)
  /\ StringSections(b)
  /\ b.accepted # "nullElement" /\ b.rejected # "nullElement"
  /\ b.profileId # "nonString"

\* The part of C25 the handler keeps: never two calls of one name, never
\* more than four calls, and the exact counts for a task whose fields have
\* the types of the data model.
CallCountsOfWellFormedTasks ==
  /\ \A c \in CallNames : issued[c] <= 1
  /\ issued["Theorist"] + issued["Experimentalist"] + issued["Impact_Assessor"]
       + issued["benchmark"] + issued["completion"] <= 4
  /\ (route = "review-paper" /\ WellFormedTask(body))
       => /\ issued["benchmark"] = (IF body.accepted = "texts" \/ body.rejected = "texts"
                                      THEN 1 ELSE 0)
          /\ (benchmark # Pending => \A r \in Roles : issued[r] = 1)

\* C28: no request receives more than one response, on any path of any
\* handler: rejected by validation, answered with a result, answered from a
\* catch block, or with calls that settle after the response.
C28_AtMostOneResponse ==
  /\ Len(responses) <= 1
  /\ Len(res) <= 1

\* One response although all three reviewer calls failed, two of them after
\* the response was written.
C28_Witness ==
  /\ responses = <<CatchResponse(ErrOther)>>
  /\ \A r \in Roles : calls[r] = Failed(ErrOther)

\* C29: provided every dispatched call eventually settles, every review
\* request eventually receives a response, whatever the benchmark and
\* reviewer calls produce.
C29_EveryReviewAnswered == (route = "review-paper") ~> (responses # <<>>)

\* The part of C29 the handler keeps: a review request that is neither
\* answered nor lost to a throw outside the try block has a call outstanding,
\* so with settling calls (each settles once) it comes to its answer.
AnswerOrOutstanding ==
  (route = "review-paper" /\ responses = <<>> /\ pc # "crashed")
    => (benchmark = Pending \/ \E r \in Roles : calls[r] = Pending)

\* ------------------------------------------------- venue classification
\* getProfileContext on its own.  A profileId is absent or a string; a string
\* is a sequence of pieces, each a keyword of the code's tests or a piece
\* that none of the tests looks for (an upper-case spelling, another word).
\* The empty string is the empty sequence.
MaxPieces == 2

ProfileKeywords ==
  {"ieee", "postech", "kaist", "nature", "cell", "science",
   "neurips", "icml", "aaai", "acl", "emnlp", "acm", "springer"}

ProfilePieces == ProfileKeywords \cup {"IEEE", "journal"}

ProfileIds ==
  {[kind |-> "absent", text |-> <<>>]}
    \cup {[kind |-> "text", text |-> t] : t \in UNION {[1..k -> ProfilePieces] : k \in 0..MaxPieces}}

\* profileId.includes(kw)
Includes(p, kw) == \E i \in 1..Len(p.text) : p.text[i] = kw

\* The contexts, by the label after "Journal Context:".
NoContext == ""
ContextIEEE == "Journal Context: IEEE/Technical"
ContextNature == "Journal Context: Nature/Cell"
ContextML == "Journal Context: ML Conference"
ContextACM == "Journal Context: ACM/Springer"

\* The tests taken from the bottom of the function upwards.
getProfileContextLastMatch(p) ==
  IF p.kind = "absent" \/ p.text = <<>> THEN NoContext
  ELSE IF Includes(p, "acm") \/ Includes(p, "springer") THEN ContextACM
  ELSE IF Includes(p, "neurips") \/ Includes(p, "icml") \/ Includes(p, "aaai")
          \/ Includes(p, "acl") \/ Includes(p, "emnlp") THEN ContextML
  ELSE IF Includes(p, "nature") \/ Includes(p, "cell") \/ Includes(p, "science")
         THEN ContextNature
  ELSE IF Includes(p, "ieee") \/ Includes(p, "postech") \/ Includes(p, "kaist")
         THEN ContextIEEE
  ELSE NoContext

getProfileContext(p) ==
  IF p.kind = "absent" \/ p.text = <<>> THEN NoContext
  ELSE IF Includes(p, "ieee") \/ Includes(p, "postech") \/ Includes(p, "kaist")
         THEN ContextIEEE
  ELSE IF Includes(p, "nature") \/ Includes(p, "cell") \/ Includes(p, "science")
         THEN ContextNature
  ELSE IF Includes(p, "neurips") \/ Includes(p, "icml") \/ Includes(p, "aaai")
          \/ Includes(p, "acl") \/ Includes(p, "emnlp") THEN ContextML
  ELSE IF Includes(p, "acm") \/ Includes(p, "springer") THEN ContextACM
  ELSE NoContext

ProfileInit ==
  /\ HandlerIdle
  /\ ExtractorIdle
  /\ LimiterIdle
  /\ PairIdle
  /\ profileId \in ProfileIds
  /\ profileContext = NotCalled
  /\ sectionLen = [n \in SectionNames |-> 0]
  /\ prompts = NotBuilt

\* One call getProfileContext(profileId).
Classify ==
  /\ profileContext = NotCalled
  /\ profileContext' = ReturnedValue(getProfileContext(profileId))
  /\ UNCHANGED <<reviewVars, issued, extractorVars, route, singleCallVars>>
  /\ UNCHANGED <<limiterVars, pair, profileId, sectionLen, prompts>>

ProfileSpec == ProfileInit /\ [][Classify]_vars

\* The venue families in their priority order, with the context of each.
FamilyKeywords ==
  <<{"ieee", "postech", "kaist"},
    {"nature", "cell", "science"},
    {"neurips", "icml", "aaai", "acl", "emnlp"},
    {"acm", "springer"}>>

FamilyContext == <<ContextIEEE, ContextNature, ContextML, ContextACM>>

\* The families that have a keyword in the profileId.
FamiliesIn(p) ==
  {f \in 1..4 : \E i \in 1..Len(p.text) : p.text[i] \in FamilyKeywords[f]}

\* C26: the context is that of the first family, in the order IEEE,
\* Nature/Science, ML conferences, ACM/Springer, that has a keyword in the
\* profileId, whatever other families have one too; an absent, empty or
\* unmatched profileId gets the empty context.
C26_FirstMatchWins ==
  profileContext.st = "returned"
    => IF FamiliesIn(profileId) = {}
         THEN profileContext.v = NoContext
         ELSE \E f \in FamiliesIn(profileId) :
                /\ \A g \in FamiliesIn(profileId) : f <= g
                /\ profileContext.v = FamilyContext[f]

\* A profileId that names an ACM venue before an IEEE one.
C26_Witness ==
  /\ profileId = [kind |-> "text", text |-> <<"acm", "ieee">>]
  /\ profileContext = ReturnedValue(ContextIEEE)

\* ------------------------------------------------- reviewer prompts
\* The user messages of the three reviewer calls, by how many characters of
\* each section they hold.  A section is given by its length; the required
\* sections of a validated request are non-empty, discussion may be missing
\* or empty (length 0).
MaxExcess == 1

TheoristCut == 2000
ExperimentalistCut == 2000
ImpactCut == 1500

SectionLens ==
  {1, ImpactCut, TheoristCut}
    \cup {ImpactCut + k : k \in 1..MaxExcess}
    \cup {TheoristCut + k : k \in 1..MaxExcess}

SectionLenMaps ==
  {m \in [SectionNames -> SectionLens \cup {0}] :
     \A n \in RequiredSections : m[n] > 0}

\* Length of s.substring(0, n) for a string s of length len.
Substring(len, n) == IF len < n THEN len ELSE n

\* The characters of each section in the user message of reviewer r.
ReviewerPrompt(r, len) ==
  CASE r = "Theorist" ->
         [n \in SectionNames |->
            CASE n = "abstract" -> len[n]
              [] n = "introduction" -> Substring(len[n], TheoristCut)
              [] n = "method" -> Substring(len[n], TheoristCut)
              [] OTHER -> 0]
    [] r = "Experimentalist" ->
         [n \in SectionNames |->
            CASE n = "method" -> Substring(len[n], ExperimentalistCut)
              [] n = "results" -> Substring(len[n], ExperimentalistCut)
              [] OTHER -> 0]
    [] r = "Impact_Assessor" ->
         [n \in SectionNames |->
            CASE n = "abstract" -> len[n]
              [] n = "introduction" -> Substring(len[n], ImpactCut)
              [] n = "discussion" ->
                   IF len[n] > 0 THEN Substring(len[n], ImpactCut) ELSE 0
              [] OTHER -> 0]

PromptInit ==
  /\ HandlerIdle
  /\ ExtractorIdle
  /\ LimiterIdle
  /\ PairIdle
  /\ profileId = [kind |-> "absent", text |-> <<>>]
  /\ profileContext = NotCalled
  /\ sectionLen \in SectionLenMaps
  /\ prompts = NotBuilt

\* The reviewerPromises array literal is evaluated: three user messages.
BuildPrompts ==
  /\ prompts = NotBuilt
  /\ prompts' = [st |-> "built",
                 user |-> [r \in Roles |-> ReviewerPrompt(r, sectionLen)]]
  /\ UNCHANGED <<reviewVars, issued, extractorVars, route, singleCallVars>>
  /\ UNCHANGED <<limiterVars, pair, profileId, profileContext, sectionLen>>

PromptSpec == PromptInit /\ [][BuildPrompts]_vars

\* The sections a role is allowed to see and the role's character budget.
Visible(r) ==
  CASE r = "Theorist" -> {"abstract", "introduction", "method"}
    [] r = "Experimentalist" -> {"method", "results"}
    [] r = "Impact_Assessor" -> {"abstract", "introduction", "discussion"}

RoleBudget(r) ==
  CASE r = "Theorist" -> TheoristCut
    [] r = "Experimentalist" -> ExperimentalistCut
    [] r = "Impact_Assessor" -> ImpactCut

\* C27: a reviewer prompt holds nothing of a section its role may not see,
\* and of a section it may see no more than the role's character budget.
C27_PromptSectionsWithinBudget ==
  prompts.st = "built"
    => \A r \in Roles, n \in SectionNames :
         IF n \in Visible(r)
           THEN prompts.user[r][n] <= RoleBudget(r)
           ELSE prompts.user[r][n] = 0

\* The part of C27 the prompts keep: nothing of a section outside the
\* role's, and every section but the abstract within the role's budget.
ExcerptsButAbstractWithinBudget ==
  prompts.st = "built"
    => \A r \in Roles, n \in SectionNames :
         /\ n \notin Visible(r) => prompts.user[r][n] = 0
         /\ (n \in Visible(r) /\ n # "abstract")
              => prompts.user[r][n] = Substring(sectionLen[n], RoleBudget(r))

====
